---- MODULE Spec2Model ----
(***************************************************************************)
(* A model of src/ctypes-foreign-base/ffi_call_stubs.c: the call           *)
(* specification builder (ctypes_allocate_callspec, ctypes_add_argument,   *)
(* ctypes_prep_callspec), the invocation engine (ctypes_call), the closure *)
(* factory (ctypes_make_function_pointer) and the callback bridge          *)
(* (callback_handler), together with the runtime lock of the managed       *)
(* runtime that the engine and the bridge release and acquire.             *)
(*                                                                         *)
(* Addresses inside a call buffer are modelled as byte offsets from the    *)
(* buffer's base.  Sizes stay far below 2^31, so the conversions between   *)
(* size_t and int at lines 230 and 300 do not change a value.  assert is   *)
(* modelled as compiled in (the file includes <assert.h> and nothing       *)
(* defines NDEBUG): a failed assertion aborts the process.                 *)
(***************************************************************************)
EXTENDS Integers, Sequences, FiniteSets, TLC

VARIABLES
  specs,      \* the callspec custom blocks allocated so far, by index
  returned,   \* per callspec: the offsets ctypes_add_argument has returned
  preps,      \* per callspec: the number of ctypes_prep_callspec calls
  closures,   \* the closures ctypes_make_function_pointer has built
  threads,    \* per thread: native/managed call stack, errno, pending exception
  lock,       \* the thread that holds the runtime lock, or NoThread
  mismatch,   \* history: a trampoline ran under a dispatch with the other flag
  aborted     \* "no", or the function whose assertion failed: the process is gone

vars == <<specs, returned, preps, closures, threads, lock, mismatch, aborted>>

---------------------------------------------------------------------------
(* Bounds of the model. *)

MaxArgs     == 3   \* arguments appended to one callspec
MaxPreps    == 2   \* ctypes_prep_callspec calls on one callspec
MaxClosures == 1   \* closures built in the builder specification
MaxDepth    == 3   \* frames (ctypes_call / callback_handler) on one stack
MaxChain    == 2   \* Fn links of a resolved boxedfn chain
MaxErrno    == 1   \* largest platform error code a native function leaves
MaxStrings  == 1   \* arguments of one call that argwriter hands a string for
NumThreads  == 2   \* threads of the concurrent specification
ThreadDepth == 2   \* frames on one stack in the concurrent specification
MaxTypeSize == 3     \* sizes of the types of SpecAlign
MaxTypeAlign == 4    \* alignments of the types of SpecAlign

(* Program constants. *)

increment_size == 8        \* line 219
sizeof_voidp   == 8        \* sizeof(void *), line 176

ffi_type_pointer == [size |-> 8, alignment |-> 8]

(* The type tokens (ffi_type) the callers draw from: char, int, double. *)
ffi_types == { [size |-> 1, alignment |-> 1],
               [size |-> 4, alignment |-> 4],
               [size |-> 8, alignment |-> 8] }

ffi_statuses == {"FFI_OK", "FFI_BAD_TYPEDEF", "FFI_BAD_ABI"}

FnNames  == {"f", "g"}
Threads  == 1..NumThreads
NoThread == 0
ErrnoValues == 0..MaxErrno
NULL == [null |-> TRUE]
NoExn == [kind |-> "none"]
NoResult == [kind |-> "none"]

---------------------------------------------------------------------------
(* Helpers of the builder. *)

\* The mutation aligned_offset_up moves an offset that is already aligned.
aligned_offset_up(offset, alignment) ==
  LET overhang == offset % alignment
  IN  offset - overhang + alignment

\* static size_t aligned_offset(size_t offset, size_t alignment)
aligned_offset(offset, alignment) ==
  LET overhang == offset % alignment
  IN  IF overhang = 0 THEN offset ELSE offset - overhang + alignment

\* callspec_prototype; roffset -1 is the unset return offset
callspec_prototype ==
  [bytes |-> 0, nelements |-> 0, capacity |-> 0, max_align |-> 0,
   state |-> "BUILDING", args |-> <<>>, roffset |-> -1,
   context |-> [check_errno |-> FALSE, runtime_lock |-> FALSE],
   cif |-> NULL]

\* ctypes_allocate_callspec: a copy of the prototype with the context set
allocate_callspec(check_errno, runtime_lock) ==
  [callspec_prototype EXCEPT
     !.context = [check_errno |-> check_errno, runtime_lock |-> runtime_lock]]

\* The mutation add_argument_packed drops the alignment of the new argument.
add_argument_packed(callspec, argtype) ==
  LET offset == callspec.bytes
      grow   == callspec.nelements + 2 >= callspec.capacity
  IN  [offset |-> offset,
       callspec |-> [callspec EXCEPT
          !.bytes = offset + argtype.size,
          !.capacity = IF grow THEN @ + increment_size ELSE @,
          !.args = Append(callspec.args, argtype),
          !.nelements = callspec.nelements + 1,
          !.max_align = IF argtype.alignment > @ THEN argtype.alignment ELSE @]]

\* ctypes_add_argument past its assertion: the new callspec and the offset
add_argument(callspec, argtype) ==
  LET offset == aligned_offset(callspec.bytes, argtype.alignment)
      grow   == callspec.nelements + 2 >= callspec.capacity
  IN  [offset |-> offset,
       callspec |-> [callspec EXCEPT
          !.bytes = offset + argtype.size,
          !.capacity = IF grow THEN @ + increment_size ELSE @,
          !.args = Append(callspec.args, argtype),
          !.nelements = callspec.nelements + 1,
          !.max_align = IF argtype.alignment > @ THEN argtype.alignment ELSE @]]

\* The mutation prep_callspec_eager sets the state before the status is checked.
prep_callspec_eager(callspec, rtype, status) ==
  LET roffset == aligned_offset(callspec.bytes, rtype.alignment)
      bytes   == aligned_offset(roffset + rtype.size, 8) + 8
  IN  [callspec EXCEPT
         !.cif = [nargs |-> callspec.nelements, rtype |-> rtype,
                  prepared |-> status = "FFI_OK"],
         !.roffset = roffset,
         !.bytes = bytes,
         !.state = "CALLSPEC"]

\* The mutation prep_callspec_nopad forgets the extra word after the return value.
prep_callspec_nopad(callspec, rtype, status) ==
  LET roffset == aligned_offset(callspec.bytes, rtype.alignment)
  IN  [callspec EXCEPT
         !.cif = [nargs |-> callspec.nelements, rtype |-> rtype,
                  prepared |-> status = "FFI_OK"],
         !.roffset = roffset,
         !.bytes = roffset + rtype.size,
         !.state = IF status = "FFI_OK" THEN "CALLSPEC" ELSE @]

\* ctypes_prep_callspec: the callspec after the call, whatever status
\* ffi_prep_cif reports; the state is set only past ctypes_check_ffi_status
prep_callspec(callspec, rtype, status) ==
  LET roffset == aligned_offset(callspec.bytes, rtype.alignment)
      bytes   == aligned_offset(roffset + rtype.size, ffi_type_pointer.alignment)
                   + ffi_type_pointer.size
  IN  [callspec EXCEPT
         !.cif = [nargs |-> callspec.nelements, rtype |-> rtype,
                  prepared |-> status = "FFI_OK"],
         !.roffset = roffset,
         !.bytes = bytes,
         !.state = IF status = "FFI_OK" THEN "CALLSPEC" ELSE @]

\* ctypes_check_ffi_status: the exception a status raises
ctypes_check_ffi_status(status) ==
  IF status = "FFI_OK" THEN NoExn
  ELSE [kind |-> "FFI_internal_error", msg |-> status]

---------------------------------------------------------------------------
(* Helpers of the invocation engine. *)

BufferAddr(offset) == [region |-> "callbuffer", offset |-> offset]
ValRefAddr(idx)    == [region |-> "val_refs", offset |-> idx * sizeof_voidp]
NativeArg(idx)     == [region |-> "native_arg", offset |-> idx]
NativeRet          == [region |-> "native_ret", offset |-> 0]
Unit               == [region |-> "unit", offset |-> 0]

\* compute_arg_buffer_size: the buffer's size and where the pointer array starts
compute_arg_buffer_size(callspec) ==
  LET arg_array_offset ==
        aligned_offset(callspec.bytes, ffi_type_pointer.alignment)
  IN  [arg_array_offset |-> arg_array_offset,
       bytes |-> arg_array_offset + callspec.nelements * sizeof_voidp]

RECURSIVE populate_walk(_, _, _, _)
populate_walk(callspec, i, offset, arg_array) ==
  IF ~(i < callspec.nelements) THEN arg_array
  ELSE LET off == aligned_offset(offset, callspec.args[i + 1].alignment)
       IN  populate_walk(callspec, i + 1, off + callspec.args[i + 1].size,
                         Append(arg_array, BufferAddr(off)))

\* The mutation populate_packed walks the arguments without aligning them.
RECURSIVE populate_packed_walk(_, _, _, _)
populate_packed_walk(callspec, i, offset, arg_array) ==
  IF ~(i < callspec.nelements) THEN arg_array
  ELSE populate_packed_walk(callspec, i + 1, offset + callspec.args[i + 1].size,
                            Append(arg_array, BufferAddr(offset)))

populate_packed(callspec) == populate_packed_walk(callspec, 0, 0, <<>>)

\* populate_arg_array: the addresses of the argument slots, in argument order
populate_arg_array(callspec) == populate_walk(callspec, 0, 0, <<>>)

\* ctypes_call, lines 299-318: the locals of a call that has entered argwriter
call_frame(fnname, s, callspec, holder) ==
  LET size == compute_arg_buffer_size(callspec)
  IN  [kind |-> "call", pc |-> "argwriter", fnname |-> fnname, callspec |-> s,
       roffset |-> callspec.roffset, context |-> callspec.context,
       nelements |-> callspec.nelements, cif |-> callspec.cif,
       arg_array_offset |-> size.arg_array_offset, bytes |-> size.bytes,
       return_slot |-> BufferAddr(callspec.roffset),
       arg_array |-> populate_arg_array(callspec),
       saved_errno |-> 0,
       \* history of this call, for the properties
       native_errno |-> 0, nrel |-> 0, nacq |-> 0, reentered |-> FALSE,
       entry_lock |-> holder]

\* ctypes_call, lines 320-336: the slots of the arguments the writer handed
\* a string for are redirected to val_refs
redirect_args(frame, strs) ==
  [i \in 1..frame.nelements |->
     IF i \in strs THEN ValRefAddr(i - 1) ELSE frame.arg_array[i]]

---------------------------------------------------------------------------
(* Helpers of the callback bridge. *)

\* Tag_val of a boxedfn whose chain has k Fn links before its Done
Tag_val(boxedfn) == IF boxedfn > 0 THEN "Fn" ELSE "Done"

\* What applying the Fn link boxedfn returns: the rest of the chain
ApplyFn(boxedfn) == boxedfn - 1

\* struct closure, as ctypes_make_function_pointer fills it
make_closure(callspec, fnid) ==
  [fnkey |-> fnid, context |-> callspec.context, cif |-> callspec.cif]

\* callback_handler on entry, before line 396
cb_frame(closure) ==
  [kind |-> "cb", pc |-> "cb_acquire", closure |-> closure,
   arity |-> closure.cif.nargs, boxedfn |-> 0, i |-> 0, apps |-> <<>>,
   resolved |-> -1]

\* Fn applications the handler makes: one per argument, one to unit for arity 0
FnSteps(arity) == IF arity = 0 THEN 1 ELSE arity

\* The mutation cb_continue_direct has no application to Val_unit at arity 0.
cb_continue_direct(frame, boxedfn) ==
  LET f == [frame EXCEPT !.boxedfn = boxedfn]
  IN  IF frame.i < frame.arity
      THEN IF Tag_val(boxedfn) = "Fn"
           THEN [f EXCEPT !.pc = "cb_apply",
                   !.apps = Append(@, [tag |-> "Fn", link |-> boxedfn,
                                       arg |-> NativeArg(frame.i)])]
           ELSE [f EXCEPT !.pc = "assert_failed"]
      ELSE IF Tag_val(boxedfn) = "Done"
           THEN [f EXCEPT !.pc = "cb_apply",
                   !.apps = Append(@, [tag |-> "Done", link |-> boxedfn,
                                       arg |-> NativeRet])]
           ELSE [f EXCEPT !.pc = "assert_failed"]

\* The mutation cb_continue_unchecked has none of the three assertions.
cb_continue_unchecked(frame, boxedfn) ==
  LET f == [frame EXCEPT !.boxedfn = boxedfn]
  IN  IF frame.i < FnSteps(frame.arity)
      THEN [f EXCEPT !.pc = "cb_apply",
              !.apps = Append(@, [tag |-> "Fn", link |-> boxedfn,
                                  arg |-> IF frame.arity = 0 THEN Unit
                                          ELSE NativeArg(frame.i)])]
      ELSE [f EXCEPT !.pc = "cb_apply",
              !.apps = Append(@, [tag |-> "Done", link |-> boxedfn,
                                  arg |-> NativeRet])]

\* The mutation cb_continue_short stops the argument loop one argument early.
cb_continue_short(frame, boxedfn) ==
  LET f == [frame EXCEPT !.boxedfn = boxedfn]
  IN  IF frame.i < FnSteps(frame.arity) - 1
      THEN IF Tag_val(boxedfn) = "Fn"
           THEN [f EXCEPT !.pc = "cb_apply",
                   !.apps = Append(@, [tag |-> "Fn", link |-> boxedfn,
                                       arg |-> IF frame.arity = 0 THEN Unit
                                               ELSE NativeArg(frame.i)])]
           ELSE [f EXCEPT !.pc = "assert_failed"]
      ELSE IF Tag_val(boxedfn) = "Done"
           THEN [f EXCEPT !.pc = "cb_apply",
                   !.apps = Append(@, [tag |-> "Done", link |-> boxedfn,
                                       arg |-> NativeRet])]
           ELSE [f EXCEPT !.pc = "assert_failed"]

\* callback_handler, lines 405-430: the C code from an assignment to boxedfn
\* to the next caml_callback, or to the assertion that fails
cb_continue(frame, boxedfn) ==
  LET f == [frame EXCEPT !.boxedfn = boxedfn]
  IN  IF frame.i < FnSteps(frame.arity)
      THEN IF Tag_val(boxedfn) = "Fn"
           THEN [f EXCEPT !.pc = "cb_apply",
                   !.apps = Append(@, [tag |-> "Fn", link |-> boxedfn,
                                       arg |-> IF frame.arity = 0 THEN Unit
                                               ELSE NativeArg(frame.i)])]
           ELSE [f EXCEPT !.pc = "assert_failed"]
      ELSE IF Tag_val(boxedfn) = "Done"
           THEN [f EXCEPT !.pc = "cb_apply",
                   !.apps = Append(@, [tag |-> "Done", link |-> boxedfn,
                                       arg |-> NativeRet])]
           ELSE [f EXCEPT !.pc = "assert_failed"]

---------------------------------------------------------------------------
(* The threads and the runtime lock. *)

Stack(t)  == threads[t].stack
Depth(t)  == Len(Stack(t))
Top(t)    == Stack(t)[Depth(t)]

\* The thread can take a step of its own code
Running(t) ==
  aborted = "no" /\ ~threads[t].blocked /\ threads[t].exn = NoExn

AtPc(t, kind, pc) ==
  Running(t) /\ Depth(t) > 0 /\ Top(t).kind = kind /\ Top(t).pc = pc

\* Managed code that may call the stubs: the thread's own code, or the body
\* of a Fn/Done application the bridge is in
AtBase(t)       == Running(t) /\ Depth(t) = 0
InManagedApp(t) == AtPc(t, "cb", "cb_apply")

\* The thread is inside managed code (its own, or a callback of a stub)
InManaged(t) ==
  \/ Depth(t) = 0
  \/ Depth(t) > 0 /\ Top(t).pc \in {"argwriter", "rvreader", "cb_resolve", "cb_apply"}

Push(th, frame) == [th EXCEPT !.stack = Append(@, frame), !.result = NoResult]
SetTop(th, frame) ==
  [th EXCEPT !.stack[Len(th.stack)] = frame, !.result = NoResult]
Pop(th, n) ==
  [th EXCEPT !.stack = SubSeq(@, 1, Len(@) - n), !.result = NoResult]

\* caml_release_runtime_system called by t: the holder gives the lock up; a
\* call by a thread that does not hold it is outside the runtime's contract,
\* and may or may not clear the lock under its holder
ReleaseOutcomes(t) == IF lock = t THEN {NoThread} ELSE {lock, NoThread}

\* caml_acquire_runtime_system called by t returns once the lock is free;
\* a thread that already holds it waits for itself
CanAcquire(t) == lock = NoThread

\* The runtime switches threads inside managed code: the holder yields
Yield(t) ==
  /\ Running(t) /\ InManaged(t) /\ lock = t
  /\ lock' = NoThread
  /\ threads' = [threads EXCEPT ![t].blocked = TRUE]
  /\ UNCHANGED <<specs, returned, preps, closures, mismatch, aborted>>

Resume(t) ==
  /\ aborted = "no" /\ threads[t].blocked /\ lock = NoThread
  /\ lock' = t
  /\ threads' = [threads EXCEPT ![t].blocked = FALSE]
  /\ UNCHANGED <<specs, returned, preps, closures, mismatch, aborted>>

\* A handler of the managed code the exception has reached catches it
HandleExn(t) ==
  /\ aborted = "no" /\ threads[t].exn # NoExn
  /\ threads' = [threads EXCEPT ![t].exn = NoExn, ![t].result = NoResult]
  /\ UNCHANGED <<specs, returned, preps, closures, lock, mismatch, aborted>>

\* No handler in the body of the application: caml_callback (lines 410, 421,
\* 430) raises again, and the exception leaves callback_handler and the
\* ffi_call of the ctypes_call below it without running the rest of either
PropagateExn(t) ==
  /\ aborted = "no" /\ threads[t].exn # NoExn
  /\ Depth(t) >= 2
  /\ threads' = [threads EXCEPT ![t] = [Pop(@, 2) EXCEPT !.exn = threads[t].exn]]
  /\ UNCHANGED <<specs, returned, preps, closures, lock, mismatch, aborted>>

---------------------------------------------------------------------------
(* The builder: the stubs called from managed code. *)

\* ctypes_allocate_callspec; the model follows the callspecs of Init or, when
\* there is none, one callspec from its allocation
AllocateCallspec(t, check_errno, runtime_lock) ==
  /\ AtBase(t) /\ specs = <<>>
  /\ specs' = Append(specs, allocate_callspec(check_errno, runtime_lock))
  /\ returned' = Append(returned, <<>>)
  /\ preps' = Append(preps, 0)
  /\ threads' = [threads EXCEPT ![t].result = NoResult]
  /\ UNCHANGED <<closures, lock, mismatch, aborted>>

\* The mutation AddArgumentUnchecked is ctypes_add_argument without line 225.
AddArgumentUnchecked(t, s, argtype) ==
  /\ AtBase(t) /\ s \in DOMAIN specs
  /\ specs[s].nelements < MaxArgs
  /\ LET r == add_argument(specs[s], argtype)
     IN  /\ specs' = [specs EXCEPT ![s] = r.callspec]
         /\ returned' = [returned EXCEPT ![s] = Append(@, r.offset)]
         /\ threads' = [threads EXCEPT ![t].result =
                          [kind |-> "value", value |-> r.offset]]
  /\ UNCHANGED <<preps, closures, lock, mismatch, aborted>>

\* ctypes_add_argument
AddArgument(t, s, argtype) ==
  /\ AtBase(t) /\ s \in DOMAIN specs
  /\ specs[s].nelements < MaxArgs
  /\ IF specs[s].state # "BUILDING"
     THEN /\ aborted' = "ctypes_add_argument"
          /\ UNCHANGED <<specs, returned, threads>>
     ELSE LET r == add_argument(specs[s], argtype)
          IN  /\ specs' = [specs EXCEPT ![s] = r.callspec]
              /\ returned' = [returned EXCEPT ![s] = Append(@, r.offset)]
              /\ threads' = [threads EXCEPT ![t].result =
                               [kind |-> "value", value |-> r.offset]]
              /\ UNCHANGED aborted
  /\ UNCHANGED <<preps, closures, lock, mismatch>>

\* ctypes_prep_callspec; status is what ffi_prep_cif answers
PrepCallspec(t, s, rtype, status) ==
  /\ AtBase(t) /\ s \in DOMAIN specs
  /\ preps[s] < MaxPreps
  /\ specs' = [specs EXCEPT ![s] = prep_callspec(specs[s], rtype, status)]
  /\ preps' = [preps EXCEPT ![s] = @ + 1]
  /\ threads' = [threads EXCEPT ![t].exn = ctypes_check_ffi_status(status),
                                ![t].result = NoResult]
  /\ UNCHANGED <<returned, closures, lock, mismatch, aborted>>

\* ctypes_make_function_pointer; status is what ffi_prep_closure_loc answers,
\* and ffi_closure_alloc may return NULL
MakeFunctionPointer(t, s, fnid, alloc_ok, status) ==
  /\ AtBase(t) /\ s \in DOMAIN specs
  /\ Cardinality(closures) < MaxClosures
  /\ IF specs[s].state # "CALLSPEC"
     THEN /\ aborted' = "ctypes_make_function_pointer"
          /\ UNCHANGED <<closures, threads>>
     ELSE /\ UNCHANGED aborted
          /\ IF ~alloc_ok
             THEN /\ threads' = [threads EXCEPT
                       ![t].exn = [kind |-> "Out_of_memory"],
                       ![t].result = NoResult]
                  /\ UNCHANGED closures
             ELSE IF status # "FFI_OK"
             THEN /\ threads' = [threads EXCEPT
                       ![t].exn = ctypes_check_ffi_status(status),
                       ![t].result = NoResult]
                  /\ UNCHANGED closures
             ELSE /\ closures' = closures \cup {make_closure(specs[s], fnid)}
                  /\ threads' = [threads EXCEPT ![t].result =
                         [kind |-> "value", value |-> make_closure(specs[s], fnid)]]
  /\ UNCHANGED <<specs, returned, preps, lock, mismatch>>

---------------------------------------------------------------------------
(* The invocation engine: ctypes_call, step by step. *)

Rest == <<specs, returned, preps, closures>>

\* Lines 296-318: the locals, the call buffer, and into argwriter
Call(t, depth, fnname, s) ==
  /\ AtBase(t) \/ InManagedApp(t)
  /\ s \in DOMAIN specs
  /\ Depth(t) < depth
  /\ IF specs[s].state # "CALLSPEC"
     THEN aborted' = "ctypes_call" /\ UNCHANGED threads
     ELSE /\ threads' = [threads EXCEPT
                ![t] = Push(@, call_frame(fnname, s, specs[s], lock))]
          /\ UNCHANGED aborted
  /\ UNCHANGED <<Rest, lock, mismatch>>

\* Lines 318-339: argwriter returns; strs are the arguments it handed a
\* string for
ArgWriterReturn(t, strs) ==
  /\ AtPc(t, "call", "argwriter")
  /\ strs \subseteq 1..Top(t).nelements
  /\ threads' = [threads EXCEPT ![t] = SetTop(@,
        [Top(t) EXCEPT !.arg_array = redirect_args(Top(t), strs),
                       !.pc = "release"])]
  /\ UNCHANGED <<Rest, lock, mismatch, aborted>>

\* Lines 341-344
CallRelease(t) ==
  /\ AtPc(t, "call", "release")
  /\ IF Top(t).context.runtime_lock
     THEN /\ lock' \in ReleaseOutcomes(t)
          /\ threads' = [threads EXCEPT ![t] = SetTop(@,
                [Top(t) EXCEPT !.pc = "reset_errno", !.nrel = @ + 1])]
     ELSE /\ UNCHANGED lock
          /\ threads' = [threads EXCEPT ![t] = SetTop(@,
                [Top(t) EXCEPT !.pc = "reset_errno"])]
  /\ UNCHANGED <<Rest, mismatch, aborted>>

\* Lines 346-349
CallResetErrno(t) ==
  /\ AtPc(t, "call", "reset_errno")
  /\ threads' = [threads EXCEPT ![t] =
        [SetTop(@, [Top(t) EXCEPT !.pc = "ffi_call"]) EXCEPT
           !.errno = IF Top(t).context.check_errno THEN 0 ELSE @]]
  /\ UNCHANGED <<Rest, lock, mismatch, aborted>>

\* Line 351, the native function calls a trampoline: callback_handler is entered
FfiCallReenter(t, depth, closure) ==
  /\ AtPc(t, "call", "ffi_call")
  /\ closure \in closures
  /\ Depth(t) < depth
  /\ threads' = [threads EXCEPT ![t] =
        Push(SetTop(@, [Top(t) EXCEPT !.reentered = TRUE]), cb_frame(closure))]
  /\ mismatch' = (mismatch \/
        closure.context.runtime_lock # Top(t).context.runtime_lock)
  /\ UNCHANGED <<Rest, lock, aborted>>

\* Line 351, the native function returns, leaving e in errno
FfiCallReturn(t, e) ==
  /\ AtPc(t, "call", "ffi_call")
  /\ threads' = [threads EXCEPT ![t] =
        [SetTop(@, [Top(t) EXCEPT !.pc = "save_errno", !.native_errno = e])
           EXCEPT !.errno = e]]
  /\ UNCHANGED <<Rest, lock, mismatch, aborted>>

\* Lines 355-358
CallSaveErrno(t) ==
  /\ AtPc(t, "call", "save_errno")
  /\ threads' = [threads EXCEPT ![t] = SetTop(@,
        [Top(t) EXCEPT !.pc = "acquire",
           !.saved_errno = IF Top(t).context.check_errno
                           THEN threads[t].errno ELSE @])]
  /\ UNCHANGED <<Rest, lock, mismatch, aborted>>

\* The mutation CallAcquireRecapture captures errno after the lock is back.
CallAcquireRecapture(t, e) ==
  /\ AtPc(t, "call", "acquire")
  /\ IF Top(t).context.runtime_lock
     THEN /\ CanAcquire(t)
          /\ lock' = t
          /\ threads' = [threads EXCEPT ![t] =
                [SetTop(@, [Top(t) EXCEPT !.pc = "check", !.nacq = @ + 1,
                      !.saved_errno = IF Top(t).context.check_errno
                                      THEN e ELSE @])
                   EXCEPT !.errno = e]]
     ELSE /\ e = threads[t].errno
          /\ UNCHANGED lock
          /\ threads' = [threads EXCEPT ![t] = SetTop(@,
                [Top(t) EXCEPT !.pc = "check"])]
  /\ UNCHANGED <<Rest, mismatch, aborted>>

\* The mutation CallAcquireSkipOnError leaves a failed call without the lock.
CallAcquireSkipOnError(t, e) ==
  /\ AtPc(t, "call", "acquire")
  /\ IF Top(t).context.runtime_lock /\ Top(t).saved_errno = 0
     THEN /\ CanAcquire(t)
          /\ lock' = t
          /\ threads' = [threads EXCEPT ![t] =
                [SetTop(@, [Top(t) EXCEPT !.pc = "check", !.nacq = @ + 1])
                   EXCEPT !.errno = e]]
     ELSE /\ e = threads[t].errno
          /\ UNCHANGED lock
          /\ threads' = [threads EXCEPT ![t] = SetTop(@,
                [Top(t) EXCEPT !.pc = "check"])]
  /\ UNCHANGED <<Rest, mismatch, aborted>>

\* Lines 360-363; the runtime's acquire may leave any code e in errno
CallAcquire(t, e) ==
  /\ AtPc(t, "call", "acquire")
  /\ IF Top(t).context.runtime_lock
     THEN /\ CanAcquire(t)
          /\ lock' = t
          /\ threads' = [threads EXCEPT ![t] =
                [SetTop(@, [Top(t) EXCEPT !.pc = "check", !.nacq = @ + 1])
                   EXCEPT !.errno = e]]
     ELSE /\ e = threads[t].errno
          /\ UNCHANGED lock
          /\ threads' = [threads EXCEPT ![t] = SetTop(@,
                [Top(t) EXCEPT !.pc = "check"])]
  /\ UNCHANGED <<Rest, mismatch, aborted>>

\* The mutation CallCheckErrnoCurrent tests errno itself, not the saved code.
CallCheckErrnoCurrent(t) ==
  /\ AtPc(t, "call", "check")
  /\ IF Top(t).context.check_errno /\ threads[t].errno # 0
     THEN threads' = [threads EXCEPT ![t] = [Pop(@, 1) EXCEPT
             !.exn = [kind |-> "Unix_error", code |-> threads[t].errno,
                      fnname |-> Top(t).fnname]]]
     ELSE threads' = [threads EXCEPT ![t] = SetTop(@,
             [Top(t) EXCEPT !.pc = "rvreader"])]
  /\ UNCHANGED <<Rest, lock, mismatch, aborted>>

\* Lines 365-373: unix_error, or into rvreader on the return slot
CallCheckErrno(t) ==
  /\ AtPc(t, "call", "check")
  /\ IF Top(t).context.check_errno /\ Top(t).saved_errno # 0
     THEN threads' = [threads EXCEPT ![t] = [Pop(@, 1) EXCEPT
             !.exn = [kind |-> "Unix_error", code |-> Top(t).saved_errno,
                      fnname |-> Top(t).fnname]]]
     ELSE threads' = [threads EXCEPT ![t] = SetTop(@,
             [Top(t) EXCEPT !.pc = "rvreader"])]
  /\ UNCHANGED <<Rest, lock, mismatch, aborted>>

\* Line 373: rvreader returns and ctypes_call returns its result
ReturnReaderReturn(t) ==
  /\ AtPc(t, "call", "rvreader")
  /\ threads' = [threads EXCEPT ![t] = [Pop(@, 1) EXCEPT
        !.result = [kind |-> "value",
                    value |-> [rvreader |-> Top(t).return_slot]]]]
  /\ UNCHANGED <<Rest, lock, mismatch, aborted>>

---------------------------------------------------------------------------
(* The callback bridge: callback_handler, step by step. *)

\* The mutation CbAcquireNone enters the resolver without lines 396-399.
CbAcquireNone(t) ==
  /\ AtPc(t, "cb", "cb_acquire")
  /\ threads' = [threads EXCEPT ![t] = SetTop(@,
        [Top(t) EXCEPT !.pc = "cb_resolve"])]
  /\ UNCHANGED <<Rest, lock, mismatch, aborted>>

\* Lines 396-401, up to the call of the resolver
CbAcquire(t) ==
  /\ AtPc(t, "cb", "cb_acquire")
  /\ IF Top(t).closure.context.runtime_lock
     THEN CanAcquire(t) /\ lock' = t
     ELSE UNCHANGED lock
  /\ threads' = [threads EXCEPT ![t] = SetTop(@,
        [Top(t) EXCEPT !.pc = "cb_resolve"])]
  /\ UNCHANGED <<Rest, mismatch, aborted>>

\* retrieve_closure returns the boxedfn registered for the key: a chain of
\* k Fn links and a Done; lines 403-421 run on to the first application
CbResolve(t, k) ==
  /\ AtPc(t, "cb", "cb_resolve")
  /\ LET f == cb_continue([Top(t) EXCEPT !.resolved = k], k)
     IN  IF f.pc = "assert_failed"
         THEN aborted' = "callback_handler" /\ UNCHANGED threads
         ELSE /\ threads' = [threads EXCEPT ![t] = SetTop(@, f)]
              /\ UNCHANGED aborted
  /\ UNCHANGED <<Rest, lock, mismatch>>

\* The mutation CbResolveStale takes what the failed resolver left for a link.
CbResolveStale(t) ==
  /\ AtPc(t, "cb", "cb_resolve")
  /\ LET f == cb_continue(Top(t), 1)
     IN  IF f.pc = "assert_failed"
         THEN aborted' = "callback_handler" /\ UNCHANGED threads
         ELSE /\ threads' = [threads EXCEPT ![t] = SetTop(@, f)]
              /\ UNCHANGED aborted
  /\ UNCHANGED <<Rest, lock, mismatch>>

\* The mutation CbResolveFailsRelease gives the lock back before it raises.
CbResolveFailsRelease(t) ==
  /\ AtPc(t, "cb", "cb_resolve")
  /\ threads' = [threads EXCEPT ![t] = [Pop(@, 2) EXCEPT
        !.exn = [kind |-> "CallToExpiredClosure",
                 context |-> Top(t).closure.context]]]
  /\ IF Top(t).closure.context.runtime_lock
     THEN lock' \in ReleaseOutcomes(t)
     ELSE UNCHANGED lock
  /\ UNCHANGED <<Rest, mismatch, aborted>>

\* retrieve_closure, lines 41-43: the resolver raised; CallToExpiredClosure
\* leaves callback_handler and the ffi_call of the ctypes_call below it; the
\* context kept with it is history, for the properties
CbResolveFails(t) ==
  /\ AtPc(t, "cb", "cb_resolve")
  /\ threads' = [threads EXCEPT ![t] = [Pop(@, 2) EXCEPT
        !.exn = [kind |-> "CallToExpiredClosure",
                 context |-> Top(t).closure.context]]]
  /\ UNCHANGED <<Rest, lock, mismatch, aborted>>

\* The application in progress returns: a Fn gives the next link and lines
\* 415-430 run on to the next application, a Done ends the chain
CbApplyReturn(t) ==
  /\ AtPc(t, "cb", "cb_apply")
  /\ LET app == Top(t).apps[Len(Top(t).apps)]
         f   == IF app.tag = "Done"
                THEN [Top(t) EXCEPT !.pc = "cb_release"]
                ELSE cb_continue([Top(t) EXCEPT !.i = @ + 1], ApplyFn(app.link))
     IN  IF f.pc = "assert_failed"
         THEN aborted' = "callback_handler" /\ UNCHANGED threads
         ELSE /\ threads' = [threads EXCEPT ![t] = SetTop(@, f)]
              /\ UNCHANGED aborted
  /\ UNCHANGED <<Rest, lock, mismatch>>

\* The mutation CbReleaseKeep returns to native code without lines 432-435.
CbReleaseKeep(t) ==
  /\ AtPc(t, "cb", "cb_release")
  /\ threads' = [threads EXCEPT ![t] = Pop(@, 1)]
  /\ UNCHANGED <<Rest, lock, mismatch, aborted>>

\* Lines 432-437: back into the native function that called the trampoline
CbRelease(t) ==
  /\ AtPc(t, "cb", "cb_release")
  /\ IF Top(t).closure.context.runtime_lock
     THEN lock' \in ReleaseOutcomes(t)
     ELSE UNCHANGED lock
  /\ threads' = [threads EXCEPT ![t] = Pop(@, 1)]
  /\ UNCHANGED <<Rest, mismatch, aborted>>

---------------------------------------------------------------------------
(* The specifications. *)

FnKeys == {1}

StringArgs == {strs \in SUBSET (1..MaxArgs) : Cardinality(strs) <= MaxStrings}

ThreadInit(blocked) ==
  [stack |-> <<>>, errno |-> 0, blocked |-> blocked, exn |-> NoExn,
   result |-> NoResult]

\* The steps of ctypes_call that do not depend on a trampoline
EngineStep(t) ==
  \/ \E strs \in StringArgs : ArgWriterReturn(t, strs)
  \/ CallRelease(t)
  \/ CallResetErrno(t)
  \/ \E e \in ErrnoValues : FfiCallReturn(t, e)
  \/ CallSaveErrno(t)
  \/ \E e \in ErrnoValues : CallAcquire(t, e)
  \/ CallCheckErrno(t)
  \/ ReturnReaderReturn(t)

BridgeStep(t) ==
  \/ CbAcquire(t)
  \/ \E k \in 0..MaxChain : CbResolve(t, k)
  \/ CbResolveFails(t)
  \/ CbApplyReturn(t)
  \/ CbRelease(t)

\* The runtime hands the lock from thread to thread
SwitchStep(t) ==
  \/ Yield(t)
  \/ Resume(t)

(* Spec: one thread builds a callspec from its allocation and calls through
   it; no trampoline is entered. *)
Init ==
  /\ specs = <<>>
  /\ returned = <<>>
  /\ preps = <<>>
  /\ closures = {}
  /\ threads = [t \in {1} |-> ThreadInit(FALSE)]
  /\ lock = 1
  /\ mismatch = FALSE
  /\ aborted = "no"

Next ==
  \E t \in {1} :
    \/ \E ce \in BOOLEAN, rl \in BOOLEAN : AllocateCallspec(t, ce, rl)
    \/ \E s \in {1}, argtype \in ffi_types : AddArgument(t, s, argtype)
    \/ \E s \in {1}, rtype \in ffi_types, status \in ffi_statuses :
         PrepCallspec(t, s, rtype, status)
    \/ \E s \in {1}, fnid \in FnKeys, alloc_ok \in BOOLEAN,
          status \in ffi_statuses :
         MakeFunctionPointer(t, s, fnid, alloc_ok, status)
    \/ \E fnname \in {"f"}, s \in {1} : Call(t, 1, fnname, s)
    \/ EngineStep(t)
    \/ HandleExn(t)

Spec == Init /\ [][Next]_vars

(* SpecCall: one thread calls through prepared callspecs of every context;
   the native functions call trampolines built from them, whose managed
   functions call again, to MaxDepth frames. *)

RECURSIVE add_arguments(_, _)
add_arguments(callspec, argtypes) ==
  IF argtypes = <<>> THEN [callspec |-> callspec, returned |-> <<>>]
  ELSE LET r    == add_argument(callspec, Head(argtypes))
           rest == add_arguments(r.callspec, Tail(argtypes))
       IN  [callspec |-> rest.callspec,
            returned |-> <<r.offset>> \o rest.returned]

TChar   == [size |-> 1, alignment |-> 1]
TInt    == [size |-> 4, alignment |-> 4]
TDouble == [size |-> 8, alignment |-> 8]

\* check_errno, runtime_lock, argument types, return type
Signatures ==
  << [check_errno |-> FALSE, runtime_lock |-> FALSE, args |-> <<>>,
      rtype |-> TInt],
     [check_errno |-> FALSE, runtime_lock |-> TRUE, args |-> <<TInt>>,
      rtype |-> TInt],
     [check_errno |-> TRUE, runtime_lock |-> FALSE, args |-> <<TChar, TDouble>>,
      rtype |-> TDouble],
     [check_errno |-> TRUE, runtime_lock |-> TRUE, args |-> <<TInt, TChar>>,
      rtype |-> TChar] >>

Built(sig) ==
  add_arguments(allocate_callspec(sig.check_errno, sig.runtime_lock), sig.args)

\* The callspec of a signature, and the closure built from it
Prepared(sig) == prep_callspec(Built(sig).callspec, sig.rtype, "FFI_OK")
Trampoline(s) == make_closure(Prepared(Signatures[s]), 1)

InitCall ==
  /\ specs = [s \in DOMAIN Signatures |-> Prepared(Signatures[s])]
  /\ returned = [s \in DOMAIN Signatures |-> Built(Signatures[s]).returned]
  /\ preps = [s \in DOMAIN Signatures |-> 1]
  /\ closures = {Trampoline(s) : s \in DOMAIN Signatures}
  /\ threads = [t \in {1} |-> ThreadInit(FALSE)]
  /\ lock = 1
  /\ mismatch = FALSE
  /\ aborted = "no"

NextCall ==
  \E t \in {1} :
    \/ \E fnname \in FnNames, s \in DOMAIN Signatures :
         Call(t, MaxDepth, fnname, s)
    \/ \E s \in DOMAIN Signatures : FfiCallReenter(t, MaxDepth, Trampoline(s))
    \/ EngineStep(t)
    \/ BridgeStep(t)
    \/ HandleExn(t)
    \/ PropagateExn(t)

SpecCall == InitCall /\ [][NextCall]_vars

(* SpecThreads: NumThreads threads call through the same prepared callspecs
   and the runtime hands the lock from one to another; thread 1 starts with
   the lock and the others wait for it. *)
InitThreads ==
  /\ specs = [s \in DOMAIN Signatures |-> Prepared(Signatures[s])]
  /\ returned = [s \in DOMAIN Signatures |-> Built(Signatures[s]).returned]
  /\ preps = [s \in DOMAIN Signatures |-> 1]
  /\ closures = {Trampoline(s) : s \in DOMAIN Signatures}
  /\ threads = [t \in Threads |-> ThreadInit(t # 1)]
  /\ lock = 1
  /\ mismatch = FALSE
  /\ aborted = "no"

\* The signatures the threads call through and reenter by: both lock flags
ThreadSignatures == {1, 4}

NextThreads ==
  \E t \in Threads :
    \/ \E fnname \in {"f"}, s \in ThreadSignatures :
         Call(t, ThreadDepth, fnname, s)
    \/ \E s \in ThreadSignatures : FfiCallReenter(t, ThreadDepth, Trampoline(s))
    \/ EngineStep(t)
    \/ BridgeStep(t)
    \/ HandleExn(t)
    \/ SwitchStep(t)

SpecThreads == InitThreads /\ [][NextThreads]_vars

(* SpecAlign: one thread appends arguments of every size and alignment to
   MaxTypeSize and MaxTypeAlign, so that aligned_offset meets every offset
   with every alignment. *)
AlignTypes ==
  {[size |-> n, alignment |-> a] : n \in 1..MaxTypeSize, a \in 1..MaxTypeAlign}

NextAlign ==
  \E t \in {1} :
    \/ \E ce \in {FALSE}, rl \in {FALSE} : AllocateCallspec(t, ce, rl)
    \/ \E s \in {1}, argtype \in AlignTypes : AddArgument(t, s, argtype)

SpecAlign == Init /\ [][NextAlign]_vars

---------------------------------------------------------------------------
(* The properties. *)

\* The alignment rule: the least multiple of a that is at least x
AlignUp(x, a) == CHOOSE m \in x..(x + a - 1) : m % a = 0

Last(seq) == seq[Len(seq)]

\* A step of ctypes_add_argument that got past its assertion on callspec s
Appended(s) ==
  /\ s \in DOMAIN specs /\ s \in DOMAIN specs'
  /\ preps'[s] = preps[s]
  /\ specs'[s] # specs[s]

\* C1: every appendArgument on a Building specification returns
\* offset = alignUp(bytes before the call, token.alignment) and leaves
\* bytes = offset + token.size; the token is appended at the end of the type
\* list and nelements grows by exactly one.
C1_AppendArgument ==
  [][\A s \in {1} : Appended(s) =>
       LET token  == Last(specs'[s].args)
           offset == Last(returned'[s])
       IN  /\ specs[s].state = "BUILDING"
           /\ returned'[s] = Append(returned[s], offset)
           /\ threads'[1].result = [kind |-> "value", value |-> offset]
           /\ offset = AlignUp(specs[s].bytes, token.alignment)
           /\ specs'[s].bytes = offset + token.size
           /\ specs'[s].args = Append(specs[s].args, token)
           /\ specs'[s].nelements = specs[s].nelements + 1
           /\ specs'[s].nelements = Len(specs'[s].args)]_vars

\* C1's case: a second argument whose offset had to be rounded up
C1_Witness ==
  /\ specs # <<>>
  /\ specs[1].nelements = 2
  /\ returned[1][2] > returned[1][1] + specs[1].args[1].size
  /\ specs[1].bytes = returned[1][2] + specs[1].args[2].size

\* C2: for every list of types appended to a specification that is then
\* prepared, the address the buffer-population walk of a call puts in slot i
\* of the pointer array, less the buffer's base, is the offset that
\* appendArgument returned for argument i.
C2_WalkMatchesBuilder ==
  \A t \in DOMAIN threads : \A d \in 1..Depth(t) :
    LET frame == Stack(t)[d]
    IN  (frame.kind = "call" /\ frame.pc = "argwriter") =>
          /\ Len(frame.arg_array) = Len(returned[frame.callspec])
          /\ \A i \in 1..frame.nelements :
               frame.arg_array[i] = BufferAddr(returned[frame.callspec][i])

\* A step of ctypes_prep_callspec on callspec s that raised nothing
PreparedOk(s) ==
  /\ s \in DOMAIN specs /\ s \in DOMAIN specs'
  /\ preps'[s] = preps[s] + 1
  /\ threads'[1].exn = NoExn

\* C3: after a successful prepare with return token (rsize, ralign),
\* returnOffset = alignUp(bytes before prepare, ralign) and
\* bytes = alignUp(returnOffset + rsize, pointer alignment) + pointer size;
\* arguments (4,4),(8,8),(1,1) and return (4,4) give offsets 0, 8, 16,
\* returnOffset 20 and bytes 32.
C3_PrepareLayout ==
  /\ [][\A s \in {1} : PreparedOk(s) =>
          LET rtype == specs'[s].cif.rtype
          IN  /\ specs'[s].state = "CALLSPEC"
              /\ specs'[s].roffset = AlignUp(specs[s].bytes, rtype.alignment)
              /\ specs'[s].bytes =
                   AlignUp(specs'[s].roffset + rtype.size, sizeof_voidp)
                     + sizeof_voidp]_vars
  /\ [](\A s \in DOMAIN specs :
          (/\ specs[s].args = <<TInt, TDouble, TChar>>
           /\ specs[s].state = "CALLSPEC"
           /\ specs[s].cif.rtype = TInt
           /\ preps[s] = 1)
          => /\ returned[s] = <<0, 8, 16>>
             /\ specs[s].roffset = 20
             /\ specs[s].bytes = 32)

\* C3's case: the round trip of the example has been prepared
C3_Witness ==
  /\ specs # <<>>
  /\ specs[1].args = <<TInt, TDouble, TChar>>
  /\ specs[1].state = "CALLSPEC"
  /\ specs[1].cif.rtype = TInt
  /\ preps[1] = 1
  /\ specs[1].bytes = 32

\* C4: appendArgument on a Prepared specification is rejected: no type token
\* is appended, and bytes, nelements and maxAlignment are left unchanged.
C4_AppendAfterPrepareRejected ==
  [][\A s \in {1} :
       (s \in DOMAIN specs /\ specs[s].state = "CALLSPEC") =>
          /\ specs'[s].args = specs[s].args
          /\ specs'[s].nelements = specs[s].nelements
          /\ specs'[s].max_align = specs[s].max_align
          /\ returned'[s] = returned[s]
          /\ preps'[s] = preps[s] => specs'[s].bytes = specs[s].bytes]_vars

\* C4's case: an appendArgument on a Prepared specification has been rejected
C4_Witness ==
  /\ aborted = "ctypes_add_argument"
  /\ specs[1].state = "CALLSPEC"
  /\ specs[1].nelements = 2

\* C5: prepare on a specification that is already Prepared is rejected: it
\* changes neither returnOffset nor bytes nor the prepared-interface handle.
C5_SecondPrepareRejected ==
  [][\A s \in {1} :
       (s \in DOMAIN specs /\ specs[s].state = "CALLSPEC") =>
          /\ specs'[s].roffset = specs[s].roffset
          /\ specs'[s].bytes = specs[s].bytes
          /\ specs'[s].cif = specs[s].cif]_vars


\* The frames of thread t, bottom first
Frames(t) == {Stack(t)[d] : d \in 1..Depth(t)}

\* The call of frame f ends in the system error
Fails(f) == f.context.check_errno /\ f.native_errno # 0

\* C6: invoke fails with a system error carrying functionName and the
\* captured platform error code if and only if checkErrno is set and the code
\* left by the dispatch is nonzero; in every other case it calls returnReader
\* on the return-slot address and returns its result, and on the error
\* outcome returnReader is never called.
C6_SystemErrorIff ==
  /\ [][\A t \in DOMAIN threads :
          /\ (Depth(t) > 0 /\ Top(t).kind = "call" /\ Top(t).pc = "check"
                /\ threads'[t] # threads[t]) =>
               IF Fails(Top(t))
               THEN /\ threads'[t].exn =
                         [kind |-> "Unix_error", code |-> Top(t).native_errno,
                          fnname |-> Top(t).fnname]
                    /\ threads'[t].stack = SubSeq(Stack(t), 1, Depth(t) - 1)
               ELSE /\ threads'[t].exn = NoExn
                    /\ threads'[t].stack = [Stack(t) EXCEPT
                          ![Depth(t)] = [Top(t) EXCEPT !.pc = "rvreader"]]
          /\ (Depth(t) > 0 /\ Top(t).kind = "call" /\ Top(t).pc = "rvreader"
                /\ threads'[t] # threads[t]) =>
               /\ threads'[t].exn = NoExn
               /\ threads'[t].stack = SubSeq(Stack(t), 1, Depth(t) - 1)
               /\ threads'[t].result =
                    [kind |-> "value", value |->
                       [rvreader |-> BufferAddr(specs[Top(t).callspec].roffset)]]
          /\ (threads'[t].exn # threads[t].exn
                /\ threads'[t].exn.kind = "Unix_error") =>
               /\ Depth(t) > 0 /\ Top(t).kind = "call" /\ Top(t).pc = "check"
               /\ Fails(Top(t))]_vars
  /\ [](\A t \in DOMAIN threads : \A f \in Frames(t) :
          (f.kind = "call" /\ f.pc = "rvreader") => ~Fails(f))

\* C6's case: a checked call has failed after the native function left a
\* code that the reacquisition of the lock then overwrote
C6_Witness ==
  \E t \in DOMAIN threads :
    /\ threads[t].exn.kind = "Unix_error"
    /\ threads[t].exn.code # threads[t].errno
    /\ threads[t].exn.fnname = "g"

\* C7: in an invoke that no trampoline reenters, with releaseLock set the
\* lock is released exactly once before the dispatch and reacquired exactly
\* once after it, on the normal and on the system-error path alike, so the
\* thread holds the lock when invoke exits; with releaseLock unset invoke
\* neither releases nor acquires the lock.
C7_LockBalanced ==
  \A t \in DOMAIN threads : \A f \in Frames(t) :
    (f.kind = "call" /\ ~f.reentered) =>
      LET rl       == f.context.runtime_lock
          released == f.pc \in {"reset_errno", "ffi_call", "save_errno",
                                "acquire", "check", "rvreader"}
          acquired == f.pc \in {"check", "rvreader"}
      IN  /\ f.nrel = IF rl /\ released THEN 1 ELSE 0
          /\ f.nacq = IF rl /\ acquired THEN 1 ELSE 0
          /\ (rl /\ released /\ ~acquired) => lock # t
          /\ (rl /\ acquired) => lock = t
          /\ ~rl => lock = f.entry_lock

\* C7's case: a call with releaseLock set is about to raise the system
\* error, and holds the lock again
C7_Witness ==
  \E t \in DOMAIN threads :
    /\ Depth(t) = 1 /\ Top(t).kind = "call" /\ Top(t).pc = "check"
    /\ Top(t).context.runtime_lock /\ Fails(Top(t)) /\ ~Top(t).reentered
    /\ Top(t).nrel = 1 /\ Top(t).nacq = 1 /\ lock = t

\* The lock operation thread t is about to make is one its state allows:
\* it releases only a lock it holds and acquires only a lock it does not hold
LockDiscipline(t) ==
  (Depth(t) > 0 /\ threads[t].exn = NoExn) =>
    LET f == Top(t)
    IN  /\ (f.kind = "call" /\ f.pc = "release" /\ f.context.runtime_lock)
             => lock = t
        /\ (f.kind = "call" /\ f.pc = "acquire" /\ f.context.runtime_lock)
             => lock # t
        /\ (f.kind = "cb" /\ f.pc = "cb_acquire"
              /\ f.closure.context.runtime_lock) => lock # t
        /\ (f.kind = "cb" /\ f.pc = "cb_release"
              /\ f.closure.context.runtime_lock) => lock = t

\* C8: in every execution of invokes and trampoline reentries nested to any
\* depth, for every combination of the releaseLock flags of the invoking
\* specification and of the closure, a thread never acquires the lock while
\* it holds it and never releases it while it does not hold it.
C8_LockNesting == \A t \in DOMAIN threads : LockDiscipline(t)

\* C8 as amended: the same, in the executions where every trampoline that a
\* dispatch has entered has the releaseLock flag of the invoke dispatching.
C8_LockNestingMatched ==
  ~mismatch =>
    \A t \in DOMAIN threads :
      /\ LockDiscipline(t)
      /\ threads[t].exn # NoExn => lock = t

\* C8's case: flags that match, an invoke nested in a reentry of an invoke,
\* about to reacquire the lock it released
C8_Witness ==
  \E t \in DOMAIN threads :
    /\ ~mismatch /\ Depth(t) = 3
    /\ Top(t).kind = "call" /\ Top(t).pc = "acquire"
    /\ Top(t).context.runtime_lock
    /\ Stack(t)[2].closure.context.runtime_lock
    /\ lock = NoThread

\* Thread t is executing managed code, or a stub on behalf of managed code
Executing(t) == ~threads[t].blocked /\ InManaged(t)

\* Thread t is in the dispatch of an invoke with releaseLock set (between
\* the release and the reacquire, or entering a trampoline that reacquires)
InReleasedDispatch(t) ==
  /\ Depth(t) > 0
  /\ \/ /\ Top(t).kind = "call" /\ Top(t).context.runtime_lock
        /\ Top(t).pc \in {"reset_errno", "ffi_call", "save_errno", "acquire"}
     \/ /\ Top(t).kind = "cb" /\ Top(t).pc = "cb_acquire"
        /\ Stack(t)[Depth(t) - 1].context.runtime_lock

\* C9: with several threads, every managed-side step is executed only by a
\* thread that holds the runtime lock; only the foreign dispatch of an invoke
\* with releaseLock set runs while its thread does not hold the lock.
C9_ManagedUnderLock ==
  \A t \in DOMAIN threads :
    /\ Executing(t) => lock = t
    /\ (~threads[t].blocked /\ lock # t) => InReleasedDispatch(t)

\* C9 as amended: the same, in the executions where every trampoline that a
\* dispatch has entered has the releaseLock flag of the invoke dispatching.
C9_ManagedUnderLockMatched == ~mismatch => C9_ManagedUnderLock

\* C9's case: one thread is in a dispatch with the lock released while
\* another executes a managed application of a trampoline
C9_Witness ==
  /\ ~mismatch
  /\ \E t \in DOMAIN threads, u \in DOMAIN threads :
       /\ t # u
       /\ Depth(t) = 1 /\ Top(t).pc = "ffi_call" /\ Top(t).context.runtime_lock
       /\ Depth(u) = 2 /\ Top(u).pc = "cb_apply" /\ lock = u
       /\ Top(u).closure.context.runtime_lock

\* C10: a trampoline of arity n >= 1 whose key resolves makes exactly n Step
\* applications, the i-th to the handle of native argument i and each to the
\* link the previous one returned, then exactly one Done application to the
\* return slot; no Done before the n-th Step and no Step after Done.
C10_StepsThenDone ==
  \A t \in DOMAIN threads : \A f \in Frames(t) :
    (f.kind = "cb" /\ f.arity >= 1 /\ f.resolved >= 0) =>
      /\ Len(f.apps) <= f.arity + 1
      /\ \A j \in 1..Len(f.apps) :
           /\ f.apps[j].link = IF j = 1 THEN f.resolved
                               ELSE ApplyFn(f.apps[j - 1].link)
           /\ j <= f.arity =>
                /\ f.apps[j].tag = "Fn" /\ Tag_val(f.apps[j].link) = "Fn"
                /\ f.apps[j].arg = NativeArg(j - 1)
           /\ j = f.arity + 1 =>
                /\ f.apps[j].tag = "Done" /\ Tag_val(f.apps[j].link) = "Done"
                /\ f.apps[j].arg = NativeRet
      /\ f.pc = "cb_apply" => f.apps # <<>>
      /\ f.pc = "cb_release" => Len(f.apps) = f.arity + 1

\* C10's case: a trampoline of two arguments has applied two Steps and Done
C10_Witness ==
  \E t \in DOMAIN threads :
    /\ Depth(t) > 0 /\ Top(t).kind = "cb" /\ Top(t).pc = "cb_release"
    /\ Top(t).arity = 2 /\ Len(Top(t).apps) = 3


\* Thread t raises the expired-closure condition in this step
RaisesExpired(t) ==
  /\ threads'[t].exn # threads[t].exn
  /\ threads'[t].exn.kind = "CallToExpiredClosure"

\* C11: when the resolver signals failure for the key of the trampoline, the
\* bridge raises the expired-closure condition having made no Step and no
\* Done application, so nothing has been written to the return slot; a
\* bridge makes its applications only with a link the resolver returned.
C11_ExpiredNoApplication ==
  /\ [][\A t \in DOMAIN threads :
          RaisesExpired(t) =>
            /\ Depth(t) >= 2
            /\ Top(t).kind = "cb" /\ Top(t).pc = "cb_resolve"
            /\ Top(t).apps = <<>> /\ Top(t).resolved = -1
            /\ threads'[t].stack = SubSeq(Stack(t), 1, Depth(t) - 2)
            /\ threads'[t].result = NoResult]_vars
  /\ [](\A t \in DOMAIN threads : \A f \in Frames(t) :
          (f.kind = "cb" /\ f.resolved = -1) =>
            /\ f.apps = <<>>
            /\ f.pc \in {"cb_acquire", "cb_resolve"})

\* C11's case: the condition has left the bridge and the call that entered it
C11_Witness ==
  \E t \in DOMAIN threads :
    /\ threads[t].exn.kind = "CallToExpiredClosure"
    /\ Depth(t) = 0
    /\ threads[t].result = NoResult


\* C12: for every x >= 0 and a >= 1, alignUp(x, a) is a multiple of a, is x
\* when x is a multiple of a and otherwise the next multiple of a above x,
\* so that x <= alignUp(x, a) < x + a, and alignUp(alignUp(x, a), a) =
\* alignUp(x, a); x is the size before an append, a the new type's alignment
\* and alignUp(x, a) the offset the append returns.
C12_AlignUp ==
  [][\A s \in {1} :
       Appended(s) =>
         LET x == specs[s].bytes
             a == Last(specs'[s].args).alignment
             r == Last(returned'[s])
         IN  /\ r % a = 0
             /\ x % a = 0 => r = x
             /\ x % a # 0 => (r > x /\ \A m \in (x + 1)..(r - 1) : m % a # 0)
             /\ x <= r /\ r < x + a
             /\ aligned_offset(r, a) = r]_vars

\* C12's case: an append has met an offset that its alignment does not
\* divide, and another one that it divides
C12_Witness ==
  /\ 1 \in DOMAIN specs /\ specs[1].nelements = 3
  /\ specs[1].args[2].alignment = 3 /\ returned[1][2] = 3
  /\ specs[1].args[1].size = 2
  /\ specs[1].args[3].alignment = 2 /\ returned[1][3] = 4


\* Thread t takes a step with a ctypes_call frame of a checked callspec on
\* top, at pc
CheckedAt(t, pc) ==
  /\ Depth(t) > 0 /\ Top(t).kind = "call" /\ Top(t).pc = pc
  /\ Top(t).context.check_errno
  /\ threads'[t] # threads[t]

\* The same frame is on top after the step, at pc
TopMovesTo(t, pc) ==
  /\ Len(threads'[t].stack) = Depth(t)
  /\ threads'[t].stack[Depth(t)].pc = pc

\* C13: in every invoke with checkErrno set the events come in the order
\* lock release (if releaseLock), reset of errno to zero, foreign dispatch,
\* capture of errno, lock reacquire (if releaseLock), raise of the system
\* error; the reset is followed at once by the dispatch and the dispatch by
\* the capture, with no lock operation and no managed callback between, and
\* the system error is raised only after the lock has been reacquired.
C13_CheckedCallOrder ==
  /\ [][\A t \in DOMAIN threads :
          LET f  == Top(t)
              rl == f.context.runtime_lock
          IN  /\ CheckedAt(t, "release") =>
                   /\ TopMovesTo(t, "reset_errno")
                   /\ IF rl THEN lock' # t ELSE lock' = lock
              /\ CheckedAt(t, "reset_errno") =>
                   /\ TopMovesTo(t, "ffi_call")
                   /\ threads'[t].errno = 0
                   /\ lock' = lock
              /\ CheckedAt(t, "ffi_call") =>
                   /\ lock' = lock
                   /\ \/ /\ TopMovesTo(t, "save_errno")
                         /\ threads'[t].stack[Depth(t)].native_errno
                              = threads'[t].errno
                      \/ /\ Len(threads'[t].stack) = Depth(t) + 1
                         /\ threads'[t].stack[Depth(t) + 1].kind = "cb"
              /\ CheckedAt(t, "save_errno") =>
                   /\ TopMovesTo(t, "acquire")
                   /\ threads'[t].stack[Depth(t)].saved_errno = f.native_errno
                   /\ lock' = lock
              /\ CheckedAt(t, "acquire") =>
                   /\ TopMovesTo(t, "check")
                   /\ threads'[t].stack[Depth(t)].saved_errno = f.saved_errno
                   /\ IF rl THEN lock = NoThread /\ lock' = t ELSE lock' = lock
              /\ (threads'[t].exn # threads[t].exn
                    /\ threads'[t].exn.kind = "Unix_error") =>
                   /\ CheckedAt(t, "check")
                   /\ threads'[t].exn.code = f.native_errno
                   /\ rl => (lock = t /\ lock' = t /\ f.nacq = 1)]_vars
  /\ [](\A t \in DOMAIN threads : \A f \in Frames(t) :
          (f.kind = "call" /\ f.context.check_errno) =>
            /\ (f.pc = "ffi_call" /\ ~f.reentered) => threads[t].errno = 0
            /\ f.pc \in {"acquire", "check"} => f.saved_errno = f.native_errno)

\* C13's case: a checked call that released the lock has it back, after the
\* reacquire overwrote the code that the capture had saved
C13_Witness ==
  \E t \in DOMAIN threads :
    /\ Depth(t) > 0 /\ Top(t).kind = "call" /\ Top(t).pc = "check"
    /\ Top(t).context.check_errno /\ Top(t).context.runtime_lock
    /\ Top(t).saved_errno # 0 /\ threads[t].errno = 0 /\ lock = t
    /\ Top(t).reentered


\* The bridge frames of thread t with no argument whose key resolved
ResolvedNullary(t) ==
  {f \in Frames(t) : f.kind = "cb" /\ f.arity = 0 /\ f.resolved >= 0}

\* C14: when a trampoline whose specification has zero arguments is invoked
\* and its key resolves, the bridge makes no Step application: the value the
\* resolver returned is itself the Done step, applied to the return slot.
C14_NullaryDirect ==
  \A t \in DOMAIN threads : \A f \in ResolvedNullary(t) :
    /\ Len(f.apps) <= 1
    /\ \A j \in 1..Len(f.apps) :
         f.apps[j] = [tag |-> "Done", link |-> f.resolved, arg |-> NativeRet]

\* C14 as amended: the bridge makes exactly one Step application, of the
\* link the resolver returned to the unit value, and then applies the link
\* that Step returned, as the Done step, to the return slot.
C14_NullaryUnitStep ==
  \A t \in DOMAIN threads : \A f \in ResolvedNullary(t) :
    /\ Len(f.apps) <= 2
    /\ Len(f.apps) >= 1 =>
         f.apps[1] = [tag |-> "Fn", link |-> f.resolved, arg |-> Unit]
    /\ Len(f.apps) = 2 =>
         f.apps[2] = [tag |-> "Done", link |-> ApplyFn(f.resolved),
                      arg |-> NativeRet]
    /\ \A j \in 1..Len(f.apps) : Tag_val(f.apps[j].link) = f.apps[j].tag
    /\ f.pc = "cb_apply" => f.apps # <<>>
    /\ f.pc = "cb_release" => Len(f.apps) = 2

\* C14's case: a bridge of no argument has applied its Step and its Done
C14_Witness ==
  \E t \in DOMAIN threads :
    /\ Depth(t) > 0 /\ Top(t).kind = "cb" /\ Top(t).pc = "cb_release"
    /\ Top(t).arity = 0 /\ Len(Top(t).apps) = 2


\* A step of ctypes_prep_callspec on callspec s
Prepares(s) ==
  /\ s \in DOMAIN specs /\ s \in DOMAIN specs'
  /\ preps'[s] = preps[s] + 1

\* C15: when the call-dispatch library rejects the prepare (bad type
\* description or bad calling convention), prepare reports the corresponding
\* error and the state is still Building afterwards; the state becomes
\* Prepared only when the library reports success.
C15_FailedPrepareKeepsState ==
  [][\A s \in {1} :
       /\ Prepares(s) =>
            IF specs'[s].cif.prepared
            THEN /\ threads'[1].exn = NoExn
                 /\ specs'[s].state = "CALLSPEC"
            ELSE /\ threads'[1].exn.kind = "FFI_internal_error"
                 /\ threads'[1].exn.msg \in {"FFI_BAD_TYPEDEF", "FFI_BAD_ABI"}
                 /\ specs'[s].state = specs[s].state
       /\ (s \in DOMAIN specs /\ specs[s].state = "BUILDING"
             /\ specs'[s].state = "CALLSPEC") =>
            /\ Prepares(s)
            /\ specs'[s].cif.prepared
            /\ threads'[1].exn = NoExn]_vars

\* C15's case: the library has rejected a prepare with each of its errors,
\* one after the other, and the callspec is still being built
C15_Witness ==
  /\ 1 \in DOMAIN specs /\ specs[1].state = "BUILDING"
  /\ preps[1] = 2
  /\ threads[1].exn = [kind |-> "FFI_internal_error", msg |-> "FFI_BAD_ABI"]

\* C16: in every reachable state, after any sequence of create,
\* appendArgument and prepare calls, prepares that fail included, a
\* specification in state Building has the unset return offset and no
\* prepared-interface handle.
C16_BuildingHasNoLayout ==
  \A s \in DOMAIN specs :
    specs[s].state = "BUILDING" =>
      (specs[s].roffset = -1 /\ specs[s].cif = NULL)

\* C17: once a specification is Prepared no operation changes it: its type
\* list, nelements, bytes, returnOffset, context and handle stay what they
\* were immediately after the successful prepare.
C17_PreparedImmutable ==
  [][\A s \in {1} :
       (s \in DOMAIN specs /\ specs[s].state = "CALLSPEC") =>
          /\ specs'[s].args = specs[s].args
          /\ specs'[s].nelements = specs[s].nelements
          /\ specs'[s].bytes = specs[s].bytes
          /\ specs'[s].roffset = specs[s].roffset
          /\ specs'[s].context = specs[s].context
          /\ specs'[s].cif = specs[s].cif
          /\ specs'[s].state = "CALLSPEC"]_vars


Min(a, b) == IF a < b THEN a ELSE b

\* What a bridge frame whose chain of `resolved` Step links does not have
\* the expected number of them may do: apply the Step links it has, no
\* more than expected, and stop at the assertion on the next link
StopsAtAssertion(t, f, expected) ==
  /\ f.pc = "cb_apply"
  /\ Len(f.apps) <= Min(f.resolved, expected)
  /\ (f = Top(t) /\ Len(f.apps) = Min(f.resolved, expected)
        /\ threads[t].exn = NoExn /\ Len(threads'[t].stack) = Depth(t)
        /\ <<threads, aborted>>' # <<threads, aborted>>) =>
       (aborted' = "callback_handler" /\ threads' = threads)

\* Every application is of a link of its own kind
AppliesInKind(f) ==
  \A j \in 1..Len(f.apps) : f.apps[j].tag = Tag_val(f.apps[j].link)

\* C18: if the resolved chain does not match the trampoline's arity (a Done
\* link before all arity arguments are applied, or a Step link left after
\* the last argument), the bridge stops at an assertion failure: it never
\* applies a Done link as a Step nor a Step link as Done, and never returns
\* normally to the native caller.
C18_ArityMismatchAsserts ==
  [][\A t \in DOMAIN threads : \A f \in Frames(t) :
       (f.kind = "cb" /\ f.resolved >= 0) =>
          /\ AppliesInKind(f)
          /\ f.resolved # f.arity => StopsAtAssertion(t, f, f.arity)]_vars

\* C18 as amended: the same, where the chain that matches arity 0 is one
\* Step link, the one applied to the unit value, followed by Done.
C18_ChainMismatchAsserts ==
  [][\A t \in DOMAIN threads : \A f \in Frames(t) :
       (f.kind = "cb" /\ f.resolved >= 0) =>
          /\ AppliesInKind(f)
          /\ f.resolved # FnSteps(f.arity) =>
               StopsAtAssertion(t, f, FnSteps(f.arity))]_vars

\* C18's case: a bridge of two arguments whose chain has one Step link has
\* applied it and stopped at the assertion on the Done link it got back
C18_Witness ==
  \E t \in DOMAIN threads :
    /\ aborted = "callback_handler"
    /\ Depth(t) > 0 /\ Top(t).kind = "cb" /\ Top(t).pc = "cb_apply"
    /\ Top(t).arity = 2 /\ Top(t).resolved = 1 /\ Len(Top(t).apps) = 1


\* The byte ranges [a1, b1) and [a2, b2) have no byte in common
Disjoint(a1, b1, a2, b2) == b1 <= a2 \/ b2 <= a1

\* The ranges of the call buffer of frame f that hold values: the argument
\* slots, the return slot and the pointer-sized pad after it
ValueRanges(f) ==
  LET args == specs[f.callspec].args
      offs == populate_arg_array(specs[f.callspec])
      rend == f.roffset + f.cif.rtype.size
  IN  [i \in 1..f.nelements |->
         [start |-> offs[i].offset, end |-> offs[i].offset + args[i].size,
          alignment |-> args[i].alignment]]
      \o << [start |-> f.roffset, end |-> rend,
             alignment |-> f.cif.rtype.alignment],
            [start |-> rend, end |-> rend + sizeof_voidp, alignment |-> 1] >>

\* C19: in the call buffer of size alignUp(bytes, pointer alignment) +
\* nelements * pointer size of every prepared specification, the storage
\* ranges of the arguments, the return slot and the pointer-sized pad after
\* it are pairwise disjoint, each argument and the return slot start at a
\* multiple of their own alignment, and all of them end at or before the
\* start of the pointer array, which itself lies inside the buffer.
C19_BufferLayout ==
  \A t \in DOMAIN threads : \A f \in Frames(t) :
    f.kind = "call" =>
      LET ranges == ValueRanges(f)
      IN  /\ f.bytes = AlignUp(specs[f.callspec].bytes,
                               ffi_type_pointer.alignment)
                         + f.nelements * sizeof_voidp
          /\ f.pc = "argwriter" =>
               f.arg_array = populate_arg_array(specs[f.callspec])
          /\ f.return_slot = BufferAddr(f.roffset)
          /\ \A i \in DOMAIN ranges :
               /\ 0 <= ranges[i].start /\ ranges[i].start < ranges[i].end
               /\ ranges[i].start % ranges[i].alignment = 0
               /\ ranges[i].end <= f.arg_array_offset
               /\ \A j \in DOMAIN ranges :
                    i # j => Disjoint(ranges[i].start, ranges[i].end,
                                      ranges[j].start, ranges[j].end)
          /\ f.arg_array_offset + f.nelements * sizeof_voidp <= f.bytes

\* C19's case: the buffer of a call with three arguments, the second one
\* moved up to its alignment
C19_Witness ==
  \E t \in DOMAIN threads :
    /\ Depth(t) > 0 /\ Top(t).kind = "call" /\ Top(t).pc = "argwriter"
    /\ Top(t).nelements = 3
    /\ specs[Top(t).callspec].args[1] = TChar
    /\ Top(t).arg_array[2] = BufferAddr(8)
    /\ Top(t).cif.rtype = TInt

\* C20: when the bridge of a closure whose context has releaseLock set
\* fails with expired closure, the acquire of bridge step 1 has happened and
\* the bridge makes no matching release: the condition propagates with the
\* thread holding the runtime lock, and the reacquire of the enclosing
\* invoke is never executed.
C20_ExpiredKeepsLock ==
  [][\A t \in DOMAIN threads :
       (RaisesExpired(t) /\ Top(t).closure.context.runtime_lock) =>
          /\ lock = t /\ lock' = t
          /\ Depth(t) >= 2
          /\ Stack(t)[Depth(t) - 1].kind = "call"
          /\ Stack(t)[Depth(t) - 1].pc = "ffi_call"
          /\ Stack(t)[Depth(t) - 1].nacq = 0
          /\ threads'[t].stack = SubSeq(Stack(t), 1, Depth(t) - 2)]_vars

\* C20's case: the condition has reached managed code from an invoke that
\* had released the lock, and the thread holds the lock
C20_Witness ==
  \E t \in DOMAIN threads :
    /\ threads[t].exn.kind = "CallToExpiredClosure"
    /\ threads[t].exn.context.runtime_lock
    /\ ~mismatch /\ lock = t /\ Depth(t) = 0

====
